---- MODULE Spec2Model ----
(***************************************************************************)
(* A model of memgpt/embeddings.py: the tokenizer-aware text check         *)
(* (check_and_split_text), the OpenAI-compatible HTTP provider             *)
(* (EmbeddingEndpoint), the zero padding of query vectors                  *)
(* (query_embedding) and the provider factory (embedding_model).           *)
(*                                                                         *)
(* Python values are modelled by strings, integers, sequences and tagged   *)
(* records.  A call's outcome is a record with raised = FALSE and the      *)
(* returned value, or raised = TRUE and the exception's class.             *)
(***************************************************************************)
EXTENDS Integers, Sequences, FiniteSets, TLC

VARIABLES
    chunk,      \* the last call of check_and_split_text and its outcome
    pad,        \* the last call of query_embedding and its outcome
    built,      \* the last call of embedding_model and its outcome
    ep,         \* the EmbeddingEndpoint object (its private attributes)
    last,       \* the last operation on the EmbeddingEndpoint and its outcome
    wire,       \* HTTP requests issued by the last operation, in order
    pc,         \* event loop: each coroutine's position
    entry,      \* event loop: the coroutine function each task runs
    running,    \* event loop: the task that holds the thread, or None
    ticks       \* event loop: steps taken by the other task

vars == <<chunk, pad, built, ep, last, wire, pc, entry, running, ticks>>

\* Python's None
None == "<None>"

(***************************************************************************)
(* check_and_split_text                                                    *)
(***************************************************************************)

\* how far below and above a limit the token counts of the texts range
TokenSlack == 1
\* the largest max_length a tokenizer object declares in the model
MaxDeclared == 2
\* the number of different texts with the same token count
NumTexts == 2

\* max_length used when the encoding object has no max_length attribute
DEFAULT_MAX_LENGTH == 8191

\* memgpt.constants: model identifier -> tiktoken encoding name
EMBEDDING_TO_TOKENIZER_MAP == [m \in {"text-embedding-ada-002"} |-> "cl100k_base"]
EMBEDDING_TO_TOKENIZER_DEFAULT == "cl100k_base"

\* model identifiers passed by callers: one mapped, two unmapped
ModelNames == {"text-embedding-ada-002", "BAAI/bge-small-en-v1.5", "unmapped-model"}

\* A text is known by its identity and by the number of tokens the
\* tokenizer counts in it.
TokenCounts ==
    (0 .. (MaxDeclared + TokenSlack))
        \cup ((DEFAULT_MAX_LENGTH - TokenSlack) .. (DEFAULT_MAX_LENGTH + TokenSlack))
Texts == [id : 1 .. NumTexts, tokens : TokenCounts]

\* tiktoken.get_encoding(name): the encoding object.  Whether the object
\* has a max_length attribute (hasattr, line 31) is decided by the library,
\* so both cases are drawn.
Encodings(name) ==
    [name : {name}, has_max_length : {FALSE}, max_length : {0}]
        \cup [name : {name}, has_max_length : {TRUE}, max_length : 1 .. MaxDeclared]

\* len(encoding.encode(text))
num_tokens(text) == text.tokens

\* llama_index's format_text(text, model, max_length=...) is library code:
\* the outcomes of the call are an exception or some text.
FormatTextOutcomes ==
    [raised : {TRUE}, exc : {"TypeError"}]
        \cup [raised : {FALSE}, text : Texts]

\* the tokenizer name chosen at lines 22-26, and the warning printed
resolve_encoding_name(embedding_model_name) ==
    IF embedding_model_name \in DOMAIN EMBEDDING_TO_TOKENIZER_MAP
    THEN EMBEDDING_TO_TOKENIZER_MAP[embedding_model_name]
    ELSE EMBEDDING_TO_TOKENIZER_DEFAULT

resolve_max_length(encoding) ==
    IF encoding.has_max_length THEN encoding.max_length ELSE DEFAULT_MAX_LENGTH

\* a faulty variant: a text of exactly max_length tokens is truncated too
check_and_split_text_ge(text, embedding_model_name, encoding, ft) ==
    LET max_length == resolve_max_length(encoding)
        warn1 == IF embedding_model_name \in DOMAIN EMBEDDING_TO_TOKENIZER_MAP
                 THEN {} ELSE {"no tokenizer"}
        warn2 == IF encoding.has_max_length THEN {} ELSE {"no max_length"}
    IN  IF num_tokens(text) >= max_length
        THEN IF ft.raised
             THEN [raised |-> TRUE, exc |-> ft.exc, ret |-> <<>>,
                   warnings |-> warn1 \cup warn2 \cup {"truncating"}]
             ELSE [raised |-> FALSE, exc |-> None, ret |-> <<ft.text>>,
                   warnings |-> warn1 \cup warn2 \cup {"truncating"}]
        ELSE [raised |-> FALSE, exc |-> None, ret |-> <<text>>,
              warnings |-> warn1 \cup warn2]

\* check_and_split_text(text, embedding_model), with the encoding object the
\* tokenizer library hands out and the outcome of format_text, if called
check_and_split_text(text, embedding_model_name, encoding, ft) ==
    LET max_length == resolve_max_length(encoding)
        warn1 == IF embedding_model_name \in DOMAIN EMBEDDING_TO_TOKENIZER_MAP
                 THEN {} ELSE {"no tokenizer"}
        warn2 == IF encoding.has_max_length THEN {} ELSE {"no max_length"}
    IN  IF num_tokens(text) > max_length
        THEN IF ft.raised
             THEN [raised |-> TRUE, exc |-> ft.exc, ret |-> <<>>,
                   warnings |-> warn1 \cup warn2 \cup {"truncating"}]
             ELSE [raised |-> FALSE, exc |-> None, ret |-> <<ft.text>>,
                   warnings |-> warn1 \cup warn2 \cup {"truncating"}]
        ELSE [raised |-> FALSE, exc |-> None, ret |-> <<text>>,
              warnings |-> warn1 \cup warn2]

NoCall == [called |-> FALSE]

\* the calls: a text, a model identifier, the encoding object the tokenizer
\* library hands out for it, and what format_text does if it is called
ChunkCalls ==
    { c \in [called : {FALSE}, text : Texts, model : ModelNames,
              encoding : UNION {Encodings(resolve_encoding_name(m)) : m \in ModelNames},
              ft : FormatTextOutcomes] :
        c.encoding.name = resolve_encoding_name(c.model) }

CheckAndSplitText ==
    /\ ~chunk.called
    /\ chunk' = [called |-> TRUE, text |-> chunk.text, model |-> chunk.model,
                 encoding |-> chunk.encoding, ft |-> chunk.ft,
                 out |-> check_and_split_text(chunk.text, chunk.model,
                                              chunk.encoding, chunk.ft)]
    /\ UNCHANGED <<pad, built, ep, last, wire, pc, entry, running, ticks>>

(***************************************************************************)
(* query_embedding                                                         *)
(***************************************************************************)

\* the width of the vector store (memgpt.constants.MAX_EMBEDDING_DIM),
\* scaled down to the model's size
MaxDim == 3
MAX_EMBEDDING_DIM == MaxDim

\* how many components wider than MAX_EMBEDDING_DIM a backend's vector gets
OverWidth == 1

\* the components of a vector (floats), zero among them
Components == {-1, 0, 2}

RECURSIVE SeqsUpTo(_, _)
SeqsUpTo(S, n) ==
    IF n = 0 THEN {<<>>}
    ELSE LET shorter == SeqsUpTo(S, n - 1)
         IN  shorter \cup {Append(s, x) : s \in {t \in shorter : Len(t) = n - 1}, x \in S}

\* what embedding_model.get_text_embedding hands back
BackendVectors == SeqsUpTo(Components, MAX_EMBEDDING_DIM + OverWidth)

Zeros(n) == [i \in 1 .. n |-> 0]

\* np.pad(array, (before, after), mode="constant") on a 1-d array: numpy
\* raises ValueError for a negative width
np_pad(array, before, after) ==
    IF before < 0 \/ after < 0
    THEN [raised |-> TRUE, exc |-> "ValueError", ret |-> <<>>]
    ELSE [raised |-> FALSE, exc |-> None, ret |-> Zeros(before) \o array \o Zeros(after)]

\* a faulty variant: the zeros go in front
query_embedding_front(query_vec) ==
    np_pad(query_vec, MAX_EMBEDDING_DIM - Len(query_vec), 0)

\* a faulty variant: an oversized vector is cut to the width
query_embedding_cut(query_vec) ==
    IF Len(query_vec) > MAX_EMBEDDING_DIM
    THEN [raised |-> FALSE, exc |-> None, ret |-> SubSeq(query_vec, 1, MAX_EMBEDDING_DIM)]
    ELSE np_pad(query_vec, 0, MAX_EMBEDDING_DIM - Len(query_vec))

\* query_embedding, from the vector the backend produced for query_text
query_embedding(query_vec) ==
    np_pad(query_vec, 0, MAX_EMBEDDING_DIM - Len(query_vec))

PadCalls == [called : {FALSE}, vec : BackendVectors]

QueryEmbedding ==
    /\ ~pad.called
    /\ pad' = [called |-> TRUE, vec |-> pad.vec, out |-> query_embedding(pad.vec)]
    /\ UNCHANGED <<chunk, built, ep, last, wire, pc, entry, running, ticks>>

(***************************************************************************)
(* EmbeddingEndpoint.__init__ and the factory embedding_model              *)
(***************************************************************************)

\* memgpt.utils.is_valid_url: a syntactically valid URL
ValidUrls == {"http://localhost:8080", "https://tei.example.com/v1"}
InvalidUrls == {"not a url", ""}
Urls == ValidUrls \cup InvalidUrls
is_valid_url(url) == url \in ValidUrls

\* the default of the constructor's timeout parameter, in seconds
DEFAULT_TIMEOUT == 60

NoObject == [class |-> None]

\* EmbeddingEndpoint.__init__(model, base_url, user, timeout)
EmbeddingEndpoint_init(model, base_url, user, timeout) ==
    IF ~is_valid_url(base_url)
    THEN [raised |-> TRUE, exc |-> "ValueError", obj |-> NoObject]
    ELSE [raised |-> FALSE, exc |-> None,
          obj |-> [class |-> "EmbeddingEndpoint", model_name |-> model,
                   _base_url |-> base_url, _user |-> user, _timeout |-> timeout]]

\* default_embedding_model(): the local Hugging Face model
default_embedding_model ==
    [raised |-> FALSE, exc |-> None, variant |-> "HuggingFaceEmbedding",
     environ |-> {<<"TOKENIZERS_PARALLELISM", "False">>},
     obj |-> [class |-> "HuggingFaceEmbedding", model_name |-> "BAAI/bge-small-en-v1.5"]]

\* values of config.embedding_endpoint_type: the three tags the factory
\* tests for, other tags, and the absent value
EndpointTypes ==
    {"openai", "azure", "hugging-face", "http-endpoint", "local", "unknown-value", None}

\* EmbeddingConfig, the fields the factory reads
Configs ==
    [embedding_endpoint_type : EndpointTypes,
     embedding_endpoint : {"https://tei.example.com/v1", "not a url", None},
     embedding_model : {"BAAI/bge-large-en-v1.5", "text-embedding-ada-002"}]

\* MemGPTCredentials.load(): the stored credentials
CredentialSets ==
    [openai_key : {None, "sk-1"},
     azure_key : {"az-key"},
     azure_endpoint : {"https://az.example.com"},
     azure_version : {"2023-05-15"},
     azure_embedding_deployment : {None, "my-deployment"}]

UserIds == {None, "user-1"}

\* lines 196-198: the OpenAI arm
build_openai(config, credentials, user_id) ==
    [raised |-> FALSE, exc |-> None, variant |-> "OpenAIEmbedding",
     environ |-> {},
     obj |-> [class |-> "OpenAIEmbedding",
              api_base |-> config.embedding_endpoint,
              api_key |-> credentials.openai_key,
              additional_kwargs |->
                  IF user_id # None THEN {<<"user_id", user_id>>} ELSE {}]]

\* lines 201-209: the Azure arm
build_azure(credentials) ==
    LET model == "text-embedding-ada-002"
        deployment == IF credentials.azure_embedding_deployment # None
                      THEN credentials.azure_embedding_deployment
                      ELSE model
    IN  [raised |-> FALSE, exc |-> None, variant |-> "AzureOpenAIEmbedding",
         environ |-> {},
         obj |-> [class |-> "AzureOpenAIEmbedding",
                  model |-> model,
                  deployment_name |-> deployment,
                  api_key |-> credentials.azure_key,
                  azure_endpoint |-> credentials.azure_endpoint,
                  api_version |-> credentials.azure_version]]

\* line 211: the arm of the OpenAI-compatible HTTP endpoint
build_endpoint(config, user_id) ==
    LET made == EmbeddingEndpoint_init(config.embedding_model,
                                       config.embedding_endpoint,
                                       user_id, DEFAULT_TIMEOUT)
    IN  [raised |-> made.raised, exc |-> made.exc,
         variant |-> "EmbeddingEndpoint", environ |-> {}, obj |-> made.obj]

\* a faulty variant: the last arm fails instead of falling back
embedding_model_strict(config, credentials, user_id) ==
    LET endpoint_type == config.embedding_endpoint_type
    IN  IF endpoint_type = "openai" THEN build_openai(config, credentials, user_id)
        ELSE IF endpoint_type = "azure" THEN build_azure(credentials)
        ELSE IF endpoint_type = "hugging-face" THEN build_endpoint(config, user_id)
        ELSE [raised |-> TRUE, exc |-> "ValueError", variant |-> None,
              environ |-> {}, obj |-> NoObject]

\* a faulty variant: without an OpenAI key the local model is used
embedding_model_keyed(config, credentials, user_id) ==
    LET endpoint_type == config.embedding_endpoint_type
    IN  IF endpoint_type = "openai" /\ credentials.openai_key # None
        THEN build_openai(config, credentials, user_id)
        ELSE IF endpoint_type = "azure" THEN build_azure(credentials)
        ELSE IF endpoint_type = "hugging-face" THEN build_endpoint(config, user_id)
        ELSE default_embedding_model

\* embedding_model(config, user_id), with the credentials that
\* MemGPTCredentials.load() returns
embedding_model(config, credentials, user_id) ==
    LET endpoint_type == config.embedding_endpoint_type
    IN  IF endpoint_type = "openai" THEN build_openai(config, credentials, user_id)
        ELSE IF endpoint_type = "azure" THEN build_azure(credentials)
        ELSE IF endpoint_type = "hugging-face" THEN build_endpoint(config, user_id)
        ELSE default_embedding_model

FactoryCalls ==
    [called : {FALSE}, config : Configs, credentials : CredentialSets, user_id : UserIds]

EmbeddingModel ==
    /\ ~built.called
    /\ built' = [called |-> TRUE, config |-> built.config,
                 credentials |-> built.credentials, user_id |-> built.user_id,
                 out |-> embedding_model(built.config, built.credentials, built.user_id)]
    /\ UNCHANGED <<chunk, pad, ep, last, wire, pc, entry, running, ticks>>

(***************************************************************************)
(* JSON values, as response.json() returns them                            *)
(***************************************************************************)

JNum(n) == [t |-> "num", n |-> n]
JStr(chars) == [t |-> "str", chars |-> chars]
JNull == [t |-> "null"]
JList(items) == [t |-> "list", items |-> items]
JDict(d) == [t |-> "dict", d |-> d]

\* the response bodies the server answers with
VecA == JList(<<JNum(1), JNum(2), JNum(3)>>)
VecB == JList(<<JNum(4), JNum(5)>>)
VecC == JList(<<JNum(6)>>)
GoodBodies ==
    { VecA,
      JList(<<>>),
      JDict([data |-> JList(<<JDict([embedding |-> VecB])>>)]),
      JDict([data |-> JList(<<JDict([embedding |-> VecB, index |-> JNum(0)]),
                              JDict([embedding |-> VecC, index |-> JNum(1)])>>),
             model |-> JStr(<<"m">>)]) }
OtherBodies ==
    { JList(<<JStr(<<"a">>)>>),
      JList(<<JNum(1), JNull>>),
      JNum(7),
      JStr(<<"o", "k">>),
      JNull,
      JDict([unexpected |-> JNum(1)]),
      JDict([data |-> JList(<<>>)]),
      JDict([data |-> JList(<<JDict([object |-> JStr(<<"e">>)])>>)]),
      JDict([data |-> JNum(5)]),
      JDict([data |-> JNull]),
      JDict([data |-> JStr(<<"a", "b">>)]),
      JDict([data |-> JStr(<<>>)]),
      JDict([data |-> JDict([embedding |-> VecB])]),
      JDict([data |-> JList(<<JNum(5)>>)]),
      JDict([data |-> JList(<<VecB>>)]),
      JDict([data |-> JList(<<JDict([embedding |-> JStr(<<"o", "o", "p", "s">>)])>>)]),
      JDict([data |-> JList(<<JDict([embedding |-> JNull])>>)]),
      JDict([data |-> JList(<<JDict([embedding |-> JNum(3)])>>)]),
      JDict([data |-> JList(<<JDict([embedding |-> JList(<<JStr(<<"x">>)>>)])>>)]) }
Bodies == GoodBodies \cup OtherBodies

\* obj[i] for an integer i (a JSON object has string keys only)
getitem_int(obj, i) ==
    CASE obj.t = "list" ->
            IF i + 1 \in DOMAIN obj.items
            THEN [ok |-> TRUE, v |-> obj.items[i + 1]]
            ELSE [ok |-> FALSE, exc |-> "IndexError"]
      [] obj.t = "str" ->
            IF i + 1 \in DOMAIN obj.chars
            THEN [ok |-> TRUE, v |-> JStr(<<obj.chars[i + 1]>>)]
            ELSE [ok |-> FALSE, exc |-> "IndexError"]
      [] obj.t = "dict" -> [ok |-> FALSE, exc |-> "KeyError"]
      [] OTHER -> [ok |-> FALSE, exc |-> "TypeError"]

\* obj[key] for a string key
getitem_str(obj, key) ==
    CASE obj.t = "dict" ->
            IF key \in DOMAIN obj.d
            THEN [ok |-> TRUE, v |-> obj.d[key]]
            ELSE [ok |-> FALSE, exc |-> "KeyError"]
      [] OTHER -> [ok |-> FALSE, exc |-> "TypeError"]

NoValue == [t |-> "no value"]
Return(v) == [raised |-> FALSE, exc |-> None, msg |-> None, ret |-> v]
Raise(exc, msg) == [raised |-> TRUE, exc |-> exc, msg |-> msg, ret |-> NoValue]

UnexpectedPayload == "Got back an unexpected payload from text embedding function"

\* response_json["data"][0]["embedding"], evaluated left to right
data_0_embedding(response_json) ==
    LET data == getitem_str(response_json, "data")
    IN  IF ~data.ok THEN data
        ELSE LET first == getitem_int(data.v, 0)
             IN  IF ~first.ok THEN first
                 ELSE getitem_str(first.v, "embedding")

\* lines 99-112 (and 133-146): the embedding in the parsed response body
parse_response(response_json) ==
    IF response_json.t = "list"
    THEN Return(response_json)
    ELSE IF response_json.t = "dict"
    THEN LET e == data_0_embedding(response_json)
         IN  IF e.ok THEN Return(e.v)
             ELSE IF e.exc \in {"KeyError", "IndexError"}
             THEN Raise("TypeError", UnexpectedPayload)
             ELSE Raise(e.exc, "native")
    ELSE Raise("TypeError", UnexpectedPayload)

(***************************************************************************)
(* EmbeddingEndpoint: the calls                                            *)
(***************************************************************************)

\* the longest list of texts given to _get_text_embeddings
MaxBatch == 2

EpTexts == {"hello", "world"}

\* the values _base_url is given after construction
EpUrls == {"http://localhost:8080", "not a url"}

\* What the network does with one POST: the transport fails (httpx raises),
\* or a response arrives whose body is JSON or is not.
TransportErrors == {"ConnectError", "ReadTimeout"}
NetOutcomes ==
    [kind : {"error"}, exc : TransportErrors]
        \cup [kind : {"not json"}]
        \cup [kind : {"response"}, body : Bodies]

\* the outcomes drawn for the elements of a batch and for the coroutines
FewOutcomes ==
    { [kind |-> "error", exc |-> "ReadTimeout"],
      [kind |-> "response", body |-> VecA],
      [kind |-> "response", body |-> JDict([data |-> JList(<<JDict([embedding |-> VecB])>>)])],
      [kind |-> "response", body |-> JDict([unexpected |-> JNum(1)])] }

\* the POST of lines 86-95
Request(self, text) ==
    [method |-> "POST",
     base_url |-> self._base_url,
     path |-> "/embeddings",
     headers |-> [content_type |-> "application/json"],
     json |-> [input |-> text, model |-> self.model_name, user |-> self._user],
     timeout |-> self._timeout]

\* what follows client.post: its exception, or response.json() and the parse
after_post(net) ==
    IF net.kind = "error" THEN Raise(net.exc, "transport")
    ELSE IF net.kind = "not json" THEN Raise("JSONDecodeError", "response.json()")
    ELSE parse_response(net.body)

InvalidUrlError == Raise("ValueError", "Embeddings endpoint does not have a valid URL")

\* a faulty variant: the URL is not checked at the call
_call_api_unchecked(self, text, net) ==
    [out |-> after_post(net), wire |-> <<Request(self, text)>>]

\* a faulty variant: one more try when the transport fails
_call_api_retry(self, text, net) ==
    IF ~is_valid_url(self._base_url)
    THEN [out |-> InvalidUrlError, wire |-> <<>>]
    ELSE IF net.kind = "error"
    THEN [out |-> after_post(net), wire |-> <<Request(self, text), Request(self, text)>>]
    ELSE [out |-> after_post(net), wire |-> <<Request(self, text)>>]

\* EmbeddingEndpoint._call_api(text): the outcome and the requests sent
_call_api(self, text, net) ==
    IF ~is_valid_url(self._base_url)
    THEN [out |-> InvalidUrlError, wire |-> <<>>]
    ELSE [out |-> after_post(net), wire |-> <<Request(self, text)>>]

_get_query_embedding(self, query, net) == _call_api(self, query, net)

_get_text_embedding(self, text, net) == _call_api(self, text, net)

\* EmbeddingEndpoint._get_text_embeddings(texts): the list comprehension
\* of line 159, left to right, ended by the first exception
RECURSIVE _get_text_embeddings(_, _, _)
_get_text_embeddings(self, texts, nets) ==
    IF texts = <<>>
    THEN [out |-> Return(<<>>), wire |-> <<>>]
    ELSE LET head == _get_text_embedding(self, Head(texts), Head(nets))
         IN  IF head.out.raised
             THEN head
             ELSE LET rest == _get_text_embeddings(self, Tail(texts), Tail(nets))
                  IN  IF rest.out.raised
                      THEN [out |-> rest.out, wire |-> head.wire \o rest.wire]
                      ELSE [out |-> Return(<<head.out.ret>> \o rest.out.ret),
                            wire |-> head.wire \o rest.wire]

Constructed == ep.class = "EmbeddingEndpoint"

\* EmbeddingEndpoint(model, base_url, user)
Construct ==
    /\ ~Constructed
    /\ \E model \in {"BAAI/bge-large-en-v1.5"}, base_url \in Urls \cup {None},
          user \in {"user-1"} :
         LET made == EmbeddingEndpoint_init(model, base_url, user, DEFAULT_TIMEOUT)
         IN  /\ ep' = made.obj
             /\ last' = [op |-> "__init__", base_url |-> base_url,
                         out |-> [raised |-> made.raised, exc |-> made.exc]]
             /\ wire' = <<>>
    /\ UNCHANGED <<chunk, pad, built, pc, entry, running, ticks>>

\* the private attribute _base_url (line 55) is assigned after construction
SetBaseUrl ==
    /\ Constructed
    /\ running = None
    /\ \E url \in EpUrls : ep' = [ep EXCEPT !._base_url = url]
    /\ UNCHANGED <<chunk, pad, built, last, wire, pc, entry, running, ticks>>

GetTextEmbedding ==
    /\ Constructed
    /\ \E text \in EpTexts, net \in NetOutcomes :
         LET r == _get_text_embedding(ep, text, net)
         IN  /\ last' = [op |-> "_get_text_embedding", self |-> ep,
                         texts |-> <<text>>, nets |-> <<net>>, out |-> r.out]
             /\ wire' = r.wire
    /\ UNCHANGED <<chunk, pad, built, ep, pc, entry, running, ticks>>

GetQueryEmbedding ==
    /\ Constructed
    /\ \E query \in EpTexts, net \in NetOutcomes :
         LET r == _get_query_embedding(ep, query, net)
         IN  /\ last' = [op |-> "_get_query_embedding", self |-> ep,
                         texts |-> <<query>>, nets |-> <<net>>, out |-> r.out]
             /\ wire' = r.wire
    /\ UNCHANGED <<chunk, pad, built, ep, pc, entry, running, ticks>>

GetTextEmbeddings ==
    /\ Constructed
    /\ \E n \in 0 .. MaxBatch :
         \E texts \in [1 .. n -> EpTexts], nets \in [1 .. n -> FewOutcomes] :
           LET r == _get_text_embeddings(ep, texts, nets)
           IN  /\ last' = [op |-> "_get_text_embeddings", self |-> ep,
                           texts |-> texts, nets |-> nets, out |-> r.out]
               /\ wire' = r.wire
    /\ UNCHANGED <<chunk, pad, built, ep, pc, entry, running, ticks>>

(***************************************************************************)
(* EmbeddingEndpoint: the coroutines, run by an event loop on one thread.  *)
(* The loop hands the thread to one coroutine at a time and gets it back   *)
(* when the coroutine awaits or ends; client.post of httpx.Client blocks   *)
(* the thread, await client.post of httpx.AsyncClient gives it back.       *)
(***************************************************************************)

\* the steps of the other task on the loop
MaxTicks == 2

Tasks == {"task1", "task2"}

\* the coroutine functions that make up the asynchronous entry points
AsyncEntryPoints == {"_aget_query_embedding", "_aget_text_embedding"}

NoEntry == [fn |-> None, text |-> None, self |-> NoObject]

\* a coroutine object is created and scheduled on the loop
Spawn(t) ==
    /\ pc[t] = "idle"
    /\ Constructed
    /\ \E fn \in AsyncEntryPoints \cup {"_acall_api"}, text \in EpTexts :
         entry' = [entry EXCEPT ![t] = [fn |-> fn, text |-> text, self |-> NoObject]]
    /\ pc' = [pc EXCEPT ![t] = "scheduled"]
    /\ UNCHANGED <<chunk, pad, built, ep, last, wire, running, ticks>>

\* _aget_text_embedding / _aget_query_embedding (lines 162-166) call the
\* synchronous _get_text_embedding / _get_query_embedding: the coroutine
\* runs _call_api up to client.post, which blocks with the thread held
AGetStart(t) ==
    /\ pc[t] = "scheduled"
    /\ entry[t].fn \in AsyncEntryPoints
    /\ running = None
    /\ entry' = [entry EXCEPT ![t].self = ep]
    /\ IF is_valid_url(ep._base_url)
       THEN /\ pc' = [pc EXCEPT ![t] = "waiting"]
            /\ running' = t
            /\ wire' = <<Request(ep, entry[t].text)>>
            /\ last' = [op |-> entry[t].fn, self |-> ep, texts |-> <<entry[t].text>>,
                        nets |-> <<>>, out |-> Return(NoValue)]
       ELSE /\ pc' = [pc EXCEPT ![t] = "done"]
            /\ running' = None
            /\ wire' = <<>>
            /\ last' = [op |-> entry[t].fn, self |-> ep, texts |-> <<entry[t].text>>,
                        nets |-> <<>>, out |-> InvalidUrlError]
    /\ UNCHANGED <<chunk, pad, built, ep, ticks>>

\* client.post returns or raises; the rest of _call_api runs and the
\* coroutine ends
AGetFinish(t) ==
    /\ pc[t] = "waiting"
    /\ entry[t].fn \in AsyncEntryPoints
    /\ running = t
    /\ \E net \in FewOutcomes :
         LET r == IF entry[t].fn = "_aget_text_embedding"
                  THEN _get_text_embedding(entry[t].self, entry[t].text, net)
                  ELSE _get_query_embedding(entry[t].self, entry[t].text, net)
         IN  /\ last' = [op |-> entry[t].fn, self |-> entry[t].self,
                         texts |-> <<entry[t].text>>, nets |-> <<net>>, out |-> r.out]
             /\ wire' = r.wire
    /\ pc' = [pc EXCEPT ![t] = "done"]
    /\ running' = None
    /\ UNCHANGED <<chunk, pad, built, ep, entry, ticks>>

\* _acall_api (lines 114-130) up to await client.post: the coroutine is
\* suspended and the thread goes back to the loop
ACallApiStart(t) ==
    /\ pc[t] = "scheduled"
    /\ entry[t].fn = "_acall_api"
    /\ running = None
    /\ entry' = [entry EXCEPT ![t].self = ep]
    /\ running' = None
    /\ IF is_valid_url(ep._base_url)
       THEN /\ pc' = [pc EXCEPT ![t] = "waiting"]
            /\ wire' = <<Request(ep, entry[t].text)>>
            /\ last' = [op |-> entry[t].fn, self |-> ep, texts |-> <<entry[t].text>>,
                        nets |-> <<>>, out |-> Return(NoValue)]
       ELSE /\ pc' = [pc EXCEPT ![t] = "done"]
            /\ wire' = <<>>
            /\ last' = [op |-> entry[t].fn, self |-> ep, texts |-> <<entry[t].text>>,
                        nets |-> <<>>, out |-> InvalidUrlError]
    /\ UNCHANGED <<chunk, pad, built, ep, ticks>>

\* _acall_api (lines 131-146): the loop resumes the coroutine with the
\* response, or with the exception of the transport
ACallApiResume(t) ==
    /\ pc[t] = "waiting"
    /\ entry[t].fn = "_acall_api"
    /\ running = None
    /\ \E net \in FewOutcomes :
         LET r == _call_api(entry[t].self, entry[t].text, net)
         IN  /\ last' = [op |-> entry[t].fn, self |-> entry[t].self,
                         texts |-> <<entry[t].text>>, nets |-> <<net>>, out |-> r.out]
             /\ wire' = r.wire
    /\ pc' = [pc EXCEPT ![t] = "done"]
    /\ running' = None
    /\ UNCHANGED <<chunk, pad, built, ep, entry, ticks>>

\* another task on the same loop takes a step: the loop gives it the thread
OtherTaskStep ==
    /\ running = None
    /\ ticks < MaxTicks
    /\ ticks' = ticks + 1
    /\ UNCHANGED <<chunk, pad, built, ep, last, wire, pc, entry, running>>

(***************************************************************************)
(* Specifications                                                          *)
(***************************************************************************)

ObjectInit ==
    /\ ep = NoObject
    /\ last = [op |-> None]
    /\ wire = <<>>

LoopInit ==
    /\ pc = [t \in Tasks |-> "idle"]
    /\ entry = [t \in Tasks |-> NoEntry]
    /\ running = None
    /\ ticks = 0

Init ==
    /\ chunk = NoCall
    /\ pad = NoCall
    /\ built = NoCall
    /\ ObjectInit
    /\ LoopInit

\* the object and its synchronous calls
Next ==
    \/ Construct
    \/ SetBaseUrl
    \/ GetTextEmbedding
    \/ GetQueryEmbedding
    \/ GetTextEmbeddings

Spec == Init /\ [][Next]_vars

\* check_and_split_text, applied to each call
ChunkInit ==
    /\ chunk \in ChunkCalls
    /\ pad = NoCall
    /\ built = NoCall
    /\ ObjectInit
    /\ LoopInit
ChunkNext == CheckAndSplitText
ChunkSpec == ChunkInit /\ [][ChunkNext]_vars

\* query_embedding, applied to each vector of the backend
PadInit ==
    /\ chunk = NoCall
    /\ pad \in PadCalls
    /\ built = NoCall
    /\ ObjectInit
    /\ LoopInit
PadNext == QueryEmbedding
PadSpec == PadInit /\ [][PadNext]_vars

\* embedding_model, applied to each configuration
FactoryInit ==
    /\ chunk = NoCall
    /\ pad = NoCall
    /\ built \in FactoryCalls
    /\ ObjectInit
    /\ LoopInit
FactoryNext == EmbeddingModel
FactorySpec == FactoryInit /\ [][FactoryNext]_vars

\* the object, constructed, and its coroutines on one event loop
AsyncInit ==
    /\ chunk = NoCall
    /\ pad = NoCall
    /\ built = NoCall
    /\ ep = EmbeddingEndpoint_init("BAAI/bge-large-en-v1.5", "http://localhost:8080",
                                   "user-1", DEFAULT_TIMEOUT).obj
    /\ last = [op |-> None]
    /\ wire = <<>>
    /\ LoopInit

AsyncNext ==
    \/ SetBaseUrl
    \/ \E t \in Tasks : Spawn(t)
    \/ \E t \in Tasks : AGetStart(t)
    \/ \E t \in Tasks : AGetFinish(t)
    \/ \E t \in Tasks : ACallApiStart(t)
    \/ \E t \in Tasks : ACallApiResume(t)
    \/ OtherTaskStep

AsyncSpec == AsyncInit /\ [][AsyncNext]_vars

(***************************************************************************)
(* Properties of query_embedding (PadSpec)                                 *)
(***************************************************************************)

\* C1: for a backend vector v with len(v) <= MAX_EMBEDDING_DIM the padded
\* query embedding has exactly MAX_EMBEDDING_DIM components, the first
\* len(v) are those of v in the same order, and the others are zero.
C1_PaddedToWidth ==
    (pad.called /\ Len(pad.vec) <= MAX_EMBEDDING_DIM) =>
        /\ ~pad.out.raised
        /\ Len(pad.out.ret) = MAX_EMBEDDING_DIM
        /\ \A i \in 1 .. MAX_EMBEDDING_DIM :
             pad.out.ret[i] = IF i <= Len(pad.vec) THEN pad.vec[i] ELSE 0

\* a vector narrower than the width, with non-zero components, was padded
C1_Witness ==
    /\ pad.called
    /\ Len(pad.vec) \in 1 .. (MAX_EMBEDDING_DIM - 1)
    /\ \A i \in DOMAIN pad.vec : pad.vec[i] # 0
    /\ ~pad.out.raised
    /\ Len(pad.out.ret) = MAX_EMBEDDING_DIM

\* C9: padding a vector wider than MAX_EMBEDDING_DIM fails with an error
\* that reaches the caller; no vector, cut or changed, is returned.
C9_OversizedFails ==
    (pad.called /\ Len(pad.vec) > MAX_EMBEDDING_DIM) =>
        /\ pad.out.raised
        /\ pad.out.exc = "ValueError"
        /\ pad.out.ret = <<>>

\* a vector wider than the width was given and the call failed
C9_Witness ==
    /\ pad.called
    /\ Len(pad.vec) = MAX_EMBEDDING_DIM + 1
    /\ pad.out.raised

(***************************************************************************)
(* Properties of check_and_split_text (ChunkSpec)                          *)
(***************************************************************************)

\* the limit the text is held against: the one the tokenizer declares,
\* or 8191
LimitOf(call) ==
    IF call.encoding.has_max_length THEN call.encoding.max_length ELSE 8191

\* C8: for a text of at most max_length tokens and any model identifier,
\* mapped to a tokenizer or not, the result is the one-element sequence
\* [text] with the text unchanged, and nothing is raised.
C8_ShortTextUnchanged ==
    (chunk.called /\ chunk.text.tokens <= LimitOf(chunk)) =>
        /\ ~chunk.out.raised
        /\ chunk.out.ret = <<chunk.text>>

\* a text of exactly max_length tokens, for a model without a tokenizer
\* mapping, came back unchanged
C8_Witness ==
    /\ chunk.called
    /\ chunk.model \notin DOMAIN EMBEDDING_TO_TOKENIZER_MAP
    /\ chunk.text.tokens = LimitOf(chunk)
    /\ "no tokenizer" \in chunk.out.warnings
    /\ chunk.out.ret = <<chunk.text>>

(***************************************************************************)
(* Properties of embedding_model (FactorySpec)                             *)
(***************************************************************************)

\* the variant each tag stands for, with "http-endpoint" as the tag of the
\* HTTP endpoint
VariantByHttpEndpointTag(endpoint_type) ==
    CASE endpoint_type = "openai" -> "OpenAIEmbedding"
      [] endpoint_type = "azure" -> "AzureOpenAIEmbedding"
      [] endpoint_type = "http-endpoint" -> "EmbeddingEndpoint"
      [] OTHER -> "HuggingFaceEmbedding"

\* the same, with "hugging-face" as the tag of the HTTP endpoint
VariantByHuggingFaceTag(endpoint_type) ==
    CASE endpoint_type = "openai" -> "OpenAIEmbedding"
      [] endpoint_type = "azure" -> "AzureOpenAIEmbedding"
      [] endpoint_type = "hugging-face" -> "EmbeddingEndpoint"
      [] OTHER -> "HuggingFaceEmbedding"

\* the HTTP-endpoint variant takes model and base URL from the config and
\* the user tag from user_id
EndpointFromConfig ==
    (built.out.variant = "EmbeddingEndpoint" /\ ~built.out.raised) =>
        /\ built.out.obj.class = "EmbeddingEndpoint"
        /\ built.out.obj.model_name = built.config.embedding_model
        /\ built.out.obj._base_url = built.config.embedding_endpoint
        /\ built.out.obj._user = built.user_id

\* C2 as stated: the variant is decided by endpoint_type alone, "openai"
\* giving the OpenAI variant, "azure" the Azure variant, "http-endpoint" the
\* HTTP-endpoint variant and every other value the local fallback.
C2_AsStated ==
    built.called =>
        /\ built.out.variant = VariantByHttpEndpointTag(built.config.embedding_endpoint_type)
        /\ EndpointFromConfig

\* C2, amended: the variant is decided by endpoint_type alone, "openai"
\* giving the OpenAI variant, "azure" the Azure variant, "hugging-face" the
\* HTTP-endpoint variant (model and base URL from the config, user tag from
\* user_id, its construction failing exactly when the base URL is invalid)
\* and every other value, "http-endpoint" among them, the local fallback.
C2_VariantByTag ==
    built.called =>
        /\ built.out.variant = VariantByHuggingFaceTag(built.config.embedding_endpoint_type)
        /\ EndpointFromConfig
        /\ built.out.raised <=>
             /\ built.config.embedding_endpoint_type = "hugging-face"
             /\ built.config.embedding_endpoint \notin ValidUrls
        /\ ~built.out.raised => built.out.obj.class = built.out.variant

\* the factory built the HTTP-endpoint variant for the tag "hugging-face"
C2_Witness ==
    /\ built.called
    /\ built.config.embedding_endpoint_type = "hugging-face"
    /\ built.credentials.openai_key = None
    /\ ~built.out.raised
    /\ built.out.obj.class = "EmbeddingEndpoint"
    /\ built.out.obj._user = "user-1"

\* C3: for an endpoint_type that is absent or is none of the tags the
\* factory recognises ("openai", "azure", "hugging-face"), the factory
\* returns the local-fallback variant and raises nothing.
C3_UnknownFallsBack ==
    (built.called
        /\ built.config.embedding_endpoint_type \notin {"openai", "azure", "hugging-face"}) =>
        /\ ~built.out.raised
        /\ built.out.variant = "HuggingFaceEmbedding"
        /\ built.out.obj = [class |-> "HuggingFaceEmbedding",
                            model_name |-> "BAAI/bge-small-en-v1.5"]

\* the factory was called with the tag "unknown-value", an invalid URL and
\* no credentials, and returned the local model
C3_Witness ==
    /\ built.called
    /\ built.config.embedding_endpoint_type = "unknown-value"
    /\ built.config.embedding_endpoint = "not a url"
    /\ built.credentials.openai_key = None
    /\ built.out.obj.class = "HuggingFaceEmbedding"

(***************************************************************************)
(* Properties of the EmbeddingEndpoint object (Spec)                       *)
(***************************************************************************)

SingleCalls == {"_get_text_embedding", "_get_query_embedding"}
EmbedCalls == SingleCalls \cup {"_get_text_embeddings"}

IsNumberList(v) ==
    /\ v.t = "list"
    /\ \A i \in DOMAIN v.items : v.items[i].t = "num"

\* a mapping whose "data" is a non-empty sequence with a mapping that has
\* "embedding" in front
HasFirstEmbedding(body) ==
    /\ body.t = "dict"
    /\ "data" \in DOMAIN body.d
    /\ body.d.data.t = "list"
    /\ body.d.data.items # <<>>
    /\ body.d.data.items[1].t = "dict"
    /\ "embedding" \in DOMAIN body.d.data.items[1].d

FirstEmbedding(body) == body.d.data.items[1].d.embedding

\* the last operation was one _call_api that got a response with a JSON body
ParsedOne ==
    /\ last.op \in SingleCalls
    /\ is_valid_url(last.self._base_url)
    /\ last.nets[1].kind = "response"

\* C4 as stated: the parser returns a vector only for the two recognised
\* shapes (a top-level sequence, returned as it is; a mapping whose "data"
\* is a sequence of mappings, the first one's "embedding", a sequence of
\* numbers, being returned); for every other body, a wrong type of "data"
\* or of "embedding" included, it raises the malformed-response error
\* (TypeError) and returns no value.
C4_AsStated ==
    ParsedOne =>
        LET body == last.nets[1].body
        IN  IF body.t = "list"
            THEN ~last.out.raised /\ last.out.ret = body
            ELSE IF HasFirstEmbedding(body) /\ IsNumberList(FirstEmbedding(body))
            THEN ~last.out.raised /\ last.out.ret = FirstEmbedding(body)
            ELSE /\ last.out.raised
                 /\ last.out.exc = "TypeError"
                 /\ last.out.ret = NoValue

\* C5: no HTTP request is issued while base_url is invalid: construction
\* with an invalid base_url fails with ValueError, sends nothing and yields
\* no object, and a call made while base_url is invalid fails with
\* ValueError before anything is sent.
C5_NoRequestToInvalidUrl ==
    /\ \A i \in DOMAIN wire : is_valid_url(wire[i].base_url)
    /\ (last.op = "__init__" /\ ~is_valid_url(last.base_url)) =>
         /\ last.out.raised
         /\ last.out.exc = "ValueError"
         /\ wire = <<>>
         /\ ~Constructed
    /\ (last.op \in EmbedCalls /\ last.texts # <<>>
            /\ ~is_valid_url(last.self._base_url)) =>
         /\ last.out.raised
         /\ last.out.exc = "ValueError"
         /\ wire = <<>>

\* the URL became invalid after construction and a call failed on it
C5_Witness ==
    /\ Constructed
    /\ last.op = "_get_text_embedding"
    /\ last.self._base_url = "not a url"
    /\ last.nets[1].kind = "response"
    /\ last.out.raised
    /\ wire = <<>>

\* a network outcome after which _call_api raises
Fails(net) ==
    \/ net.kind # "response"
    \/ /\ net.body.t # "list"
       /\ ~HasFirstEmbedding(net.body)

\* the first failing element of a batch, or 0
FirstFailure(nets) ==
    IF \E i \in DOMAIN nets : Fails(nets[i])
    THEN CHOOSE i \in DOMAIN nets :
            Fails(nets[i]) /\ \A j \in 1 .. (i - 1) : ~Fails(nets[j])
    ELSE 0

C6_AsyncYields ==
    \A t \in Tasks :
        (entry[t].fn \in AsyncEntryPoints /\ pc[t] = "waiting" /\ ticks < MaxTicks) =>
            ENABLED OtherTaskStep

====
